---- MODULE Spec2Model ----
(***************************************************************************)
(* Request-lifecycle core of the HTTP server: the connection dispatcher    *)
(* (sg__httpsrv_ahc), the termination notifier (sg__httpsrv_rcc), the      *)
(* connection-notify hook (sg__httpsrv_ncc), the auth gate, the isolation  *)
(* manager and sg_httpsrv_free.  The engine (libmicrohttpd) is the         *)
(* environment: it calls the hooks in the order its callback ABI fixes.    *)
(***************************************************************************)
EXTENDS Integers, Sequences, FiniteSets, TLC

\* ------------------------------------------------------------------ bounds
\* the dispatcher specification serves one connection: sg__httpsrv_ahc keeps
\* no state that two connections share
DispatchConns == {1}
\* body chunks the engine delivers for one request, at most
MaxChunks == 2
\* requests served over one connection (keep-alive), at most
MaxReqs == 2

\* the null request pointer
NULL == [null |-> TRUE]
MHD_YES == "MHD_YES"
MHD_NO == "MHD_NO"

VARIABLES
  srv,      \* struct sg_httpsrv: callback registry, engine handle, isolated_list
  env,      \* what the engine's clients send: chunks per request, requests per connection
  conn,     \* per connection: the engine's own state of it
  con_cls,  \* per connection: the engine's opaque slot (*con_cls): NULL or the request
  last,     \* per connection: what the most recent sg__httpsrv_ahc call did
  hist,     \* per connection: calls made for the current request, requests created/freed
  worker,   \* per connection: the isolation worker thread of its request
  mutex,    \* srv->mutex: "none" or the thread holding it
  fr,       \* the thread running sg_httpsrv_free: position, loop cursors
  au,       \* an auth object with its response, driven call by call
  app       \* the embedding application: its last API call, what the call did

vars == <<srv, env, conn, con_cls, last, hist, worker, mutex, fr, au, app>>

Conns == DOMAIN conn

\* the bool a callback returns, stored into the enum MHD_Result field res->ret
BoolToRet(b) == IF b THEN MHD_YES ELSE MHD_NO

\* ------------------------------------------------------------ request object
\* sg__httpreq_new: a fresh request with its auth and response objects
httpreq_new ==
  [canceled |-> FALSE,   \* req->auth->canceled
   isolated |-> FALSE,   \* req->isolated
   handle   |-> FALSE,   \* req->res->handle: a response has been composed
   conok    |-> TRUE,    \* req->res->con is a valid connection reference
   ret      |-> MHD_NO,  \* req->res->ret
   cleaned  |-> FALSE]   \* the upload engine's cleanup has run on it

\* what one sg__httpsrv_ahc call did: kind (reject: line 70; start: lines
\* 73-82; data: lines 84-96), inflight (the handler has not returned yet),
\* bytes (the call carried body bytes), auth (auth callback and gate ran), upld
\* (upload engine fed), term and pret (it returned true, and its verdict),
\* reqcb (request callback invoked), isocall and isorc (the call of
\* sg_httpreq_isolate the request callback made and what it returned, "none"
\* when it made none), squery and susp (the
\* suspended-state query was made, and the engine's answer), disp
\* (sg__httpres_dispatch called), ret
NoCall ==
  [kind |-> "none", inflight |-> FALSE, bytes |-> FALSE, auth |-> FALSE, upld |-> FALSE,
   term |-> FALSE, pret |-> MHD_NO, reqcb |-> FALSE, isocall |-> "none", isorc |-> "none",
   squery |-> FALSE, susp |-> FALSE, disp |-> FALSE, ret |-> MHD_NO]

\* calls made for the current request (authn, upldn, reqcbn, and dispn, the
\* calls of sg__httpres_dispatch; order: the auth
\* gate ran before any of the others; gate: the auth gate's verdict, "reject"
\* when sg__httpauth_dispatch failed, "respond" when it let a canceled request
\* with a denial response through), the requests of this connection
\* (created, cleaned, freed; leaked: freed without cleanup), and the engine's
\* suspend/resume calls on it (nsusp, nres; badres: a resume while not suspended)
NoHist ==
  [authn |-> 0, upldn |-> 0, reqcbn |-> 0, dispn |-> 0, order |-> TRUE, gate |-> "none",
   created |-> 0, cleaned |-> 0, freed |-> 0, leaked |-> 0,
   nsusp |-> 0, nres |-> 0, badres |-> FALSE]

NoWorker == [pc |-> "none", dereg |-> FALSE, resumed |-> FALSE, entry |-> "none"]


\* ------------------------------------------------------------ auth gate
\* what the user's auth callback did: its return value, whether it called
\* sg_httpauth_deny (composing the denial response) and sg_httpauth_cancel
AuthOutcomes == [result : BOOLEAN, deny : BOOLEAN, cancel : BOOLEAN]

\* line 78: req->res->ret = srv->auth_cb(srv->cls, req->auth, req, req->res)
auth_cb(r, a) ==
  [r EXCEPT !.ret = BoolToRet(a.result),
            !.handle = a.deny,
            !.canceled = a.cancel]

\* mutant: a canceled auth is rejected whether or not a denial was composed
httpauth_dispatch_CancelRejects(r) ==
  IF r.ret = MHD_YES THEN [ok |-> TRUE, ret |-> MHD_YES, queued |-> FALSE]
  ELSE IF r.handle /\ r.conok /\ ~r.canceled
  THEN [ok |-> FALSE, ret |-> MHD_YES, queued |-> TRUE]
  ELSE [ok |-> FALSE, ret |-> MHD_NO, queued |-> FALSE]

\* sg__httpauth_dispatch: [ok (its bool result), ret (res->ret afterwards),
\* queued (the denial response was handed to the engine)]
httpauth_dispatch(r) ==
  IF r.ret = MHD_YES THEN [ok |-> TRUE, ret |-> MHD_YES, queued |-> FALSE]
  ELSE IF r.canceled THEN
    IF r.handle THEN [ok |-> TRUE, ret |-> MHD_YES, queued |-> FALSE]
    ELSE [ok |-> FALSE, ret |-> MHD_NO, queued |-> FALSE]
  ELSE IF r.handle THEN
    IF r.conok THEN [ok |-> FALSE, ret |-> MHD_YES, queued |-> TRUE]
    ELSE [ok |-> FALSE, ret |-> MHD_NO, queued |-> FALSE]
  ELSE [ok |-> FALSE, ret |-> MHD_NO, queued |-> FALSE]

\* errno values the auth calls return
OK == "0"
EINVAL == "EINVAL"
EALREADY == "EALREADY"

\* a null string argument
NullStr == "(null)"

\* sg__httpauth_new with its sg__httpres_new response: the fields of both,
\* then what the last call on it was (op), its arguments (args), what it
\* returned (rc) and, for the gate's dispatch, the fields it was called on
\* (pre) and its bool result (ok)
httpauth_new ==
  [ret |-> MHD_NO, canceled |-> FALSE, handle |-> FALSE, conok |-> TRUE,
   realm |-> NullStr, status |-> 0, hdr |-> NullStr, val |-> NullStr,
   op |-> "new", args |-> <<>>, rc |-> OK, ok |-> FALSE, queued |-> FALSE,
   pre |-> [ret |-> MHD_NO, canceled |-> FALSE, handle |-> FALSE, conok |-> TRUE]]

\* mutant: a set realm is replaced
httpauth_set_realm_Overwrite(a, realm) ==
  IF realm = NullStr THEN [a EXCEPT !.op = "set_realm", !.rc = EINVAL]
  ELSE [a EXCEPT !.op = "set_realm", !.rc = OK, !.realm = realm]

\* sg_httpauth_set_realm: write-once
httpauth_set_realm(a, realm) ==
  IF realm = NullStr THEN [a EXCEPT !.op = "set_realm", !.rc = EINVAL]
  ELSE IF a.realm # NullStr THEN [a EXCEPT !.op = "set_realm", !.rc = EALREADY]
  ELSE [a EXCEPT !.op = "set_realm", !.rc = OK, !.realm = realm]

\* mutant: the upper end of the status range is not checked
httpauth_deny2_NoUpper(a, hdr, val, status) ==
  IF hdr = NullStr \/ val = NullStr \/ status < 100
  THEN [a EXCEPT !.op = "deny", !.rc = EINVAL]
  ELSE IF a.handle THEN [a EXCEPT !.op = "deny", !.rc = EALREADY]
  ELSE [a EXCEPT !.op = "deny", !.rc = OK, !.handle = TRUE,
                 !.status = status, !.hdr = hdr, !.val = val]

\* mutant: a composed denial response is composed again
httpauth_deny2_Recompose(a, hdr, val, status) ==
  IF hdr = NullStr \/ val = NullStr \/ status < 100 \/ status > 599
  THEN [a EXCEPT !.op = "deny", !.rc = EINVAL]
  ELSE [a EXCEPT !.op = "deny", !.rc = OK, !.handle = TRUE,
                 !.status = status, !.hdr = hdr, !.val = val]

\* sg_httpauth_deny2: validates its arguments, then composes the denial
\* response once
httpauth_deny2(a, hdr, val, status) ==
  IF hdr = NullStr \/ val = NullStr \/ status < 100 \/ status > 599
  THEN [a EXCEPT !.op = "deny", !.rc = EINVAL]
  ELSE IF a.handle THEN [a EXCEPT !.op = "deny", !.rc = EALREADY]
  ELSE [a EXCEPT !.op = "deny", !.rc = OK, !.handle = TRUE,
                 !.status = status, !.hdr = hdr, !.val = val]

\* the status sg_httpauth_deny composes its response with
MHD_HTTP_UNAUTHORIZED == 401

\* sg_httpauth_deny: sg_httpauth_deny2 with the default status
httpauth_deny(a, hdr, val) == httpauth_deny2(a, hdr, val, MHD_HTTP_UNAUTHORIZED)

\* sg_httpauth_cancel
httpauth_cancel(a) == [a EXCEPT !.op = "cancel", !.args = <<>>, !.rc = OK, !.canceled = TRUE]

\* how the upload engine fares on one chunk
UpldOutcomes == {"ok", "limit", "fault"}

\* sg__httpuplds_process: [term (it returned true: the dispatcher returns ret
\* at once), ret, queued (it dispatched its own size-limit response), handle]
\*  - bytes, no fault: consumes them, ret = MHD_YES, returns true
\*  - bytes, limit exceeded: composes and dispatches the 4xx response
\*  - bytes, parse fault: ret = MHD_NO
\*  - no bytes: the stream is complete, returns false
httpuplds_process(r, bytes, u) ==
  IF ~bytes THEN [term |-> FALSE, ret |-> r.ret, queued |-> FALSE, handle |-> r.handle]
  ELSE IF u = "ok" THEN [term |-> TRUE, ret |-> MHD_YES, queued |-> FALSE, handle |-> r.handle]
  ELSE IF u = "limit" THEN
    [term |-> TRUE, ret |-> BoolToRet(r.conok), queued |-> r.conok, handle |-> TRUE]
  ELSE [term |-> TRUE, ret |-> MHD_NO, queued |-> FALSE, handle |-> r.handle]

\* sg__httpuplds_cleanup, run by the termination notifier
httpuplds_cleanup(r) == [r EXCEPT !.cleaned = TRUE]

\* ------------------------------------------------------------ response
\* sg__httpres_dispatch: queues the prepared response; fails (MHD_NO) when no
\* response was composed or its connection reference is null
httpres_dispatch(r) ==
  IF r.handle /\ r.conok THEN [ret |-> MHD_YES, queued |-> TRUE]
  ELSE [ret |-> MHD_NO, queued |-> FALSE]

\* ------------------------------------------------------------ dispatcher
\* what the user's request handler does: compose a response (sg_httpres_send),
\* return without one, hand the request to a worker (sg_httpreq_isolate), or
\* call sg_httpreq_isolate with a null request or a null handler function and
\* return without a response
HandlerOutcomes == {"send", "none", "isolate", "isolate_noreq", "isolate_nocb"}

IsolateCalls == {"isolate", "isolate_noreq", "isolate_nocb"}

\* mutant: the arguments are not validated
httpreq_isolate_NoCheck(r, has_req, has_cb) ==
  [req |-> [r EXCEPT !.isolated = TRUE], rc |-> OK, spawned |-> TRUE]

\* sg_httpreq_isolate(req, cb, cls): [req (the request afterwards), rc,
\* spawned (the connection was suspended, the worker thread created and its
\* entry registered)]
httpreq_isolate(r, has_req, has_cb) ==
  IF ~has_req \/ ~has_cb THEN [req |-> r, rc |-> EINVAL, spawned |-> FALSE]
  ELSE [req |-> [r EXCEPT !.isolated = TRUE], rc |-> OK, spawned |-> TRUE]

\* mutant: the socket context is not consulted
Claimed_Never(c) == FALSE

\* lines 66-70: info && info->socket_context
Claimed(c) == conn[c].socket_context

\* mutant: the slot is not consulted, every call creates a request
NeedsNew_Always(slot) == TRUE

\* line 72: if (!req)
NeedsNew(slot) == slot = NULL

\* line 77: if (srv->auth_cb)
RunsAuth == srv.auth_cb

\* mutant: a canceled request is processed like any other
BodyGate_Open(r) == TRUE

\* line 84: if (!req->auth->canceled)
BodyGate(r) == ~r.canceled

\* mutant: the upload engine's result is ignored
UpldReturns_Ignored(p) == FALSE

\* lines 85-87: the upload engine's result decides whether to return at once
UpldReturns(p) == p.term

\* mutant: the request callback is invoked whether or not the request is isolated
HandlerGate_Always(r) == TRUE

\* mutant: the isolation test is inverted
HandlerGate_Inverted(r) == r.isolated

\* line 88: if (!req->isolated)
HandlerGate(r) == ~r.isolated

\* mutant: the response is dispatched whatever the engine reports
PostHandler_AlwaysDispatch(r, suspended) ==
  [ret |-> httpres_dispatch(r).ret, queued |-> httpres_dispatch(r).queued,
   disp |-> TRUE]

\* lines 91-96: info && info->suspended ? MHD_YES : sg__httpres_dispatch(req->res)
\* [ret, queued, disp (sg__httpres_dispatch was called)]
PostHandler(r, suspended) ==
  IF suspended
  THEN [ret |-> MHD_YES, queued |-> FALSE, disp |-> FALSE]
  ELSE [ret |-> httpres_dispatch(r).ret, queued |-> httpres_dispatch(r).queued,
        disp |-> TRUE]

\* the engine after a dispatcher call: MHD_NO closes the request, a queued
\* response ends it, otherwise it calls again (when the connection is polled)
EngineAfter(ret, queued) == IF ret = MHD_NO \/ queued THEN "done" ELSE "req"

\* the engine calls the access handler: for a new request (no bytes yet), or
\* again for a request in progress whose connection is not suspended
CanCall(c) ==
  /\ srv.handle
  /\ \/ conn[c].st = "open" /\ conn[c].nreq < env.reqs
     \/ conn[c].st = "req" /\ ~conn[c].suspended

\* sg__httpsrv_ahc, one call. body: chunks the client sends (first call);
\* a: the auth callback's doing; u: the upload engine's; h: the handler's
sg__httpsrv_ahc(c, body, a, u, h) ==
  LET slot == con_cls[c]
      H == hist[c]
  IN
  IF Claimed(c) THEN
    \* line 70: return MHD_NO
    /\ last' = [last EXCEPT ![c] = [NoCall EXCEPT !.kind = "reject"]]
    /\ conn' = [conn EXCEPT ![c].st = "done", ![c].queued = FALSE]
    /\ UNCHANGED <<con_cls, hist, worker>>
  ELSE IF NeedsNew(slot) THEN
    \* lines 73-82
    LET r0 == httpreq_new
        r1 == IF RunsAuth THEN auth_cb(r0, a) ELSE r0
        d  == httpauth_dispatch(r1)
        failed == RunsAuth /\ ~d.ok
        r2 == IF RunsAuth THEN [r1 EXCEPT !.ret = d.ret] ELSE r1
        ret == IF failed THEN r2.ret ELSE MHD_YES
        queued == RunsAuth /\ d.queued
    IN
    /\ con_cls' = [con_cls EXCEPT ![c] = r2]
    /\ last' = [last EXCEPT ![c] =
                  [NoCall EXCEPT !.kind = "start", !.auth = RunsAuth, !.ret = ret]]
    /\ hist' = [hist EXCEPT ![c] =
                  [H EXCEPT !.authn = IF RunsAuth /\ H.authn < 2
                                       THEN H.authn + 1 ELSE H.authn,
                            !.order = H.order /\ (RunsAuth => H.upldn = 0 /\ H.reqcbn = 0),
                            !.gate = IF ~RunsAuth THEN "none"
                                     ELSE IF ~d.ok THEN "reject"
                                     ELSE IF r1.ret = MHD_NO THEN "respond"
                                     ELSE "proceed",
                            !.created = IF H.created <= MaxReqs
                                         THEN H.created + 1 ELSE H.created]]
    /\ conn' = [conn EXCEPT ![c].st = EngineAfter(ret, queued),
                            ![c].queued = queued,
                            ![c].body = IF conn[c].st = "open" THEN body ELSE conn[c].body]
    /\ UNCHANGED worker
  ELSE
    \* lines 84-96
    LET bytes == conn[c].body > 0
        p == httpuplds_process(slot, bytes, u)
        fed == BodyGate(slot)
        stop == fed /\ UpldReturns(p)
        r1 == IF fed THEN [slot EXCEPT !.ret = p.ret, !.handle = p.handle] ELSE slot
        called == fed /\ ~stop /\ HandlerGate(r1)
        ir == httpreq_isolate(r1, h # "isolate_noreq", h # "isolate_nocb")
        r2 == IF ~called THEN r1
              ELSE IF h = "send" THEN [r1 EXCEPT !.handle = TRUE]
              ELSE IF h \in IsolateCalls THEN ir.req
              ELSE r1
        iso == called /\ h \in IsolateCalls /\ ir.spawned
        ph == PostHandler(r2, conn[c].suspended)
        r3 == IF stop \/ iso \/ ~ph.disp THEN r2 ELSE [r2 EXCEPT !.ret = ph.ret]
        ret == IF stop THEN p.ret ELSE ph.ret
        queued == IF stop THEN p.queued ELSE ph.queued
        log == [kind |-> "data", inflight |-> iso, bytes |-> bytes, auth |-> FALSE,
                upld |-> fed, term |-> fed /\ p.term, pret |-> p.ret, reqcb |-> called,
                isocall |-> IF called /\ h \in IsolateCalls THEN h ELSE "none",
                isorc |-> IF called /\ h \in IsolateCalls THEN ir.rc ELSE "none",
                squery |-> ~stop /\ ~iso,
                susp |-> ~stop /\ ~iso /\ conn[c].suspended,
                disp |-> ~stop /\ ~iso /\ ph.disp,
                ret |-> IF iso THEN MHD_NO ELSE ret]
    IN
    /\ con_cls' = [con_cls EXCEPT ![c] = r3]
    /\ last' = [last EXCEPT ![c] = log]
    /\ hist' = [hist EXCEPT ![c] =
                  [H EXCEPT !.upldn = IF fed /\ H.upldn < MaxChunks + 2
                                       THEN H.upldn + 1 ELSE H.upldn,
                            !.reqcbn = IF called /\ H.reqcbn < 2
                                        THEN H.reqcbn + 1 ELSE H.reqcbn,
                            !.dispn = IF log.disp /\ H.dispn < 2
                                       THEN H.dispn + 1 ELSE H.dispn,
                            !.nsusp = IF iso THEN H.nsusp + 1 ELSE H.nsusp]]
    /\ conn' = [conn EXCEPT
                  ![c].st = IF iso THEN "reg" ELSE EngineAfter(ret, queued),
                  ![c].queued = ~iso /\ queued,
                  ![c].suspended = IF iso THEN TRUE ELSE conn[c].suspended,
                  ![c].body = IF fed /\ bytes THEN conn[c].body - 1 ELSE conn[c].body]
    /\ worker' = [worker EXCEPT ![c] =
                    IF iso THEN [NoWorker EXCEPT !.pc = "run", !.entry = "live"]
                    ELSE worker[c]]

AhcAccess(c) ==
  /\ CanCall(c)
  /\ \E body \in (IF conn[c].st = "open" THEN 0..env.chunks ELSE {0}),
        a \in (IF con_cls[c] = NULL /\ srv.auth_cb THEN AuthOutcomes
               ELSE {[result |-> TRUE, deny |-> FALSE, cancel |-> FALSE]}),
        u \in (IF conn[c].st = "req" /\ conn[c].body > 0 THEN UpldOutcomes ELSE {"ok"}),
        h \in (IF conn[c].st = "req" THEN env.req_cb ELSE {"none"}) :
       sg__httpsrv_ahc(c, body, a, u, h)
  /\ UNCHANGED <<srv, env, mutex, fr, au, app>>

\* ------------------------------------------------------------ isolation
\* the engine's suspend/resume primitives, and what hist records of them
Resumed(H, suspended) ==
  [H EXCEPT !.nres = IF H.nres < 3 THEN H.nres + 1 ELSE H.nres,
            !.badres = H.badres \/ ~suspended]

\* utlist LL_DELETE: unlinks the entry when the list holds it
LL_DELETE(list, e) == SelectSeq(list, LAMBDA x : x # e)

\* sg_httpreq_isolate, after it suspended the connection and spawned the
\* worker: lock, LL_APPEND(srv->isolated_list, isolated), unlock
IsolateRegister(c) ==
  /\ conn[c].st = "reg"
  /\ mutex = "none"
  /\ srv' = [srv EXCEPT !.isolated_list = Append(srv.isolated_list, c)]
  /\ conn' = [conn EXCEPT ![c].st = "post"]
  /\ UNCHANGED <<env, con_cls, last, hist, worker, mutex, fr, au, app>>

\* sg__httpsrv_ahc lines 91-96, when the handler isolated the request
AhcPost(c) ==
  /\ conn[c].st = "post"
  /\ LET r == con_cls[c]
         ph == PostHandler(r, conn[c].suspended)
     IN
     /\ con_cls' = [con_cls EXCEPT ![c] = IF ph.disp THEN [r EXCEPT !.ret = ph.ret] ELSE r]
     /\ last' = [last EXCEPT ![c] =
                   [last[c] EXCEPT !.inflight = FALSE, !.squery = TRUE,
                                   !.susp = conn[c].suspended, !.disp = ph.disp,
                                   !.ret = ph.ret]]
     /\ hist' = [hist EXCEPT ![c].dispn = IF ph.disp /\ hist[c].dispn < 2
                                           THEN hist[c].dispn + 1 ELSE hist[c].dispn]
     /\ conn' = [conn EXCEPT ![c].st = EngineAfter(ph.ret, ph.queued),
                             ![c].queued = ph.queued]
  /\ UNCHANGED <<srv, env, worker, mutex, fr, au, app>>

\* the worker thread runs handlerFn(request, response) to its end
WorkerHandler(c) ==
  /\ worker[c].pc = "run"
  /\ \E h \in env.isolated_cb :
       con_cls' = [con_cls EXCEPT ![c] =
                     IF con_cls[c] # NULL /\ h = "send"
                     THEN [con_cls[c] EXCEPT !.handle = TRUE] ELSE con_cls[c]]
  /\ worker' = [worker EXCEPT ![c].pc = "fin"]
  /\ UNCHANGED <<srv, env, conn, last, hist, mutex, fr, au, app>>

\* the completed worker resumes the connection: MHD_resume_connection
WorkerResume(c) ==
  /\ worker[c].pc = "fin"
  /\ ~worker[c].resumed
  /\ conn' = [conn EXCEPT ![c].suspended = FALSE]
  /\ hist' = [hist EXCEPT ![c] = Resumed(hist[c], conn[c].suspended)]
  /\ worker' = [worker EXCEPT ![c].resumed = TRUE]
  /\ UNCHANGED <<srv, env, con_cls, last, mutex, fr, au, app>>

\* then it deregisters itself (lock, LL_DELETE, unlock), releases its
\* registry entry ("refreed": an entry released before is released again)
\* and exits
WorkerDeregister(c) ==
  /\ worker[c].pc = "fin"
  /\ worker[c].resumed
  /\ mutex = "none"
  /\ srv' = [srv EXCEPT !.isolated_list = LL_DELETE(srv.isolated_list, c)]
  /\ worker' = [worker EXCEPT ![c].dereg = TRUE, ![c].pc = "exit",
                               ![c].entry = IF worker[c].entry = "live"
                                            THEN "freed" ELSE "refreed"]
  /\ UNCHANGED <<env, conn, con_cls, last, hist, mutex, fr, au, app>>

\* ------------------------------------------------------------ engine hooks
\* sg__httpsrv_ncc, MHD_CONNECTION_NOTIFY_STARTED: the client-connect callback
\* may set its output flag, which becomes the connection's socket context
\* lines 115-123: without a client-connect callback the socket context stays
\* null; with one, *socket_ctx = closed, the flag the callback left
ncc_started(closed) == srv.cli_cb /\ closed

NotifyStarted(c) ==
  /\ srv.handle
  /\ conn[c].st = "closed"
  /\ \E closed \in BOOLEAN :
       conn' = [conn EXCEPT ![c].st = "open",
                            ![c].cliflag = srv.cli_cb /\ closed,
                            ![c].socket_context = ncc_started(closed)]
  /\ UNCHANGED <<srv, env, con_cls, last, hist, worker, mutex, fr, au, app>>

\* sg__httpsrv_ncc, MHD_CONNECTION_NOTIFY_CLOSED: no request is in progress
NotifyClosed(c) ==
  /\ conn[c].st \in {"open", "closing"}
  /\ conn' = [conn EXCEPT ![c].st = "gone"]
  /\ UNCHANGED <<srv, env, con_cls, last, hist, worker, mutex, fr, au, app>>

\* mutant: the request is freed without the upload engine's cleanup
rcc_cleanup_Skipped(r) == r

\* line 103: sg__httpuplds_cleanup(cls, *con_cls)
rcc_cleanup(r) == httpuplds_cleanup(r)

\* line 106: *con_cls = NULL
rcc_clear(slot) == NULL

\* sg__httpsrv_rcc on connection c: cleanup and free the request the slot
\* holds, clear the slot. [slot, hist]
sg__httpsrv_rcc(c) ==
  LET slot == con_cls[c]
      H == hist[c]
      r == rcc_cleanup(slot)
  IN
  IF slot # NULL
  THEN [slot |-> rcc_clear(slot),
        hist |-> [H EXCEPT !.cleaned = IF r.cleaned /\ ~slot.cleaned
                                        THEN H.cleaned + 1 ELSE H.cleaned,
                           !.freed = H.freed + 1,
                           !.leaked = IF r.cleaned THEN H.leaked ELSE H.leaked + 1,
                           !.authn = 0, !.upldn = 0, !.reqcbn = 0, !.dispn = 0,
                           !.order = TRUE,
                           !.gate = "none"]]
  ELSE [slot |-> rcc_clear(slot), hist |-> H]

\* the engine's termination notification for a finished request; a request
\* answered with a response leaves the connection open for the next one
Completed(c) ==
  /\ conn[c].st = "done"
  /\ con_cls' = [con_cls EXCEPT ![c] = sg__httpsrv_rcc(c).slot]
  /\ hist' = [hist EXCEPT ![c] = sg__httpsrv_rcc(c).hist]
  /\ conn' = [conn EXCEPT ![c].st = IF conn[c].queued THEN "open" ELSE "closing",
                          ![c].nreq = conn[c].nreq + 1,
                          ![c].queued = FALSE]
  /\ UNCHANGED <<srv, env, last, worker, mutex, fr, au, app>>

\* ------------------------------------------------------------ server lifecycle
\* line 302: the post-buffer size a new server starts with
PostBufDefault == 4096

\* lines 155, 473: the least post-buffer size
MinPostBuf == 256

\* running engines one application is let to start
MaxDaemons == 2

ENOMEM == "ENOMEM"
EAGAIN == "EAGAIN"

\* errno as one call leaves it: a value, or Untouched when the call did not
\* assign it
Untouched == "untouched"

\* what the allocations of sg_httpsrv_new2 may do: sg_alloc fails, sg_tmpdir
\* fails, pthread_mutex_init fails, or all succeed
NewOutcomes == {"ok", "alloc", "tmpdir", "mutex"}

\* mutant: the error callback is not required
new2_invalid_ReqOnly(has_req_cb, has_err_cb) == ~has_req_cb

\* line 268: if (!req_cb || !err_cb)
new2_invalid(has_req_cb, has_err_cb) == ~has_req_cb \/ ~has_err_cb

\* sg_httpsrv_new2: [srv (NULL or the new server), errno]. sg_alloc returns
\* zeroed memory: handle, isolated_list and cli_cb start null, con_limit,
\* con_timeout and thr_pool_size start 0
sg_httpsrv_new2(has_auth_cb, has_req_cb, has_err_cb, cls, res) ==
  IF new2_invalid(has_req_cb, has_err_cb) THEN [srv |-> NULL, errno |-> EINVAL]
  ELSE IF res \in {"alloc", "tmpdir"} THEN [srv |-> NULL, errno |-> ENOMEM]
  ELSE IF res = "mutex" THEN [srv |-> NULL, errno |-> EAGAIN]
  ELSE [srv |-> [auth_cb |-> has_auth_cb, req_cb |-> has_req_cb, err_cb |-> has_err_cb, cls |-> cls,
                 cli_cb |-> FALSE, handle |-> FALSE, isolated_list |-> <<>>,
                 upld_cb |-> TRUE, upld_write_cb |-> TRUE, upld_free_cb |-> TRUE,
                 upld_save_cb |-> TRUE, upld_save_as_cb |-> TRUE,
                 uplds_dir |-> TRUE, post_buf_size |-> PostBufDefault,
                 con_limit |-> 0, con_timeout |-> 0, thr_pool_size |-> 0],
        errno |-> Untouched]

\* sg_httpsrv_set_upld_cbs, lines 443-455: [srv, rc]
sg_httpsrv_set_upld_cbs(s, cb, write_cb, free_cb, save_cb, save_as_cb) ==
  IF s = NULL \/ ~cb \/ ~write_cb \/ ~save_cb \/ ~save_as_cb
  THEN [srv |-> s, rc |-> EINVAL]
  ELSE [srv |-> [s EXCEPT !.upld_cb = cb, !.upld_write_cb = write_cb,
                          !.upld_free_cb = free_cb, !.upld_save_cb = save_cb,
                          !.upld_save_as_cb = save_as_cb],
        rc |-> OK]

\* sg_httpsrv_set_upld_dir, lines 457-463; dup: strdup returned a string
sg_httpsrv_set_upld_dir(s, dir, dup) ==
  IF s = NULL \/ ~dir THEN [srv |-> s, rc |-> EINVAL]
  ELSE [srv |-> [s EXCEPT !.uplds_dir = dup], rc |-> OK]

\* sg_httpsrv_set_post_buf_size, lines 472-477
sg_httpsrv_set_post_buf_size(s, size) ==
  IF s = NULL \/ size < MinPostBuf THEN [srv |-> s, rc |-> EINVAL]
  ELSE [srv |-> [s EXCEPT !.post_buf_size = size], rc |-> OK]

\* sg_httpsrv_set_thr_pool_size, lines 514-519
sg_httpsrv_set_thr_pool_size(s, size) ==
  IF s = NULL THEN [srv |-> s, rc |-> EINVAL]
  ELSE [srv |-> [s EXCEPT !.thr_pool_size = size], rc |-> OK]

\* sg_httpsrv_set_con_timeout, lines 528-533
sg_httpsrv_set_con_timeout(s, timeout) ==
  IF s = NULL THEN [srv |-> s, rc |-> EINVAL]
  ELSE [srv |-> [s EXCEPT !.con_timeout = timeout], rc |-> OK]

\* sg_httpsrv_set_con_limit, lines 542-547
sg_httpsrv_set_con_limit(s, limit) ==
  IF s = NULL THEN [srv |-> s, rc |-> EINVAL]
  ELSE [srv |-> [s EXCEPT !.con_limit = limit], rc |-> OK]

\* mutant: the engine is stopped and the handle kept
sg_httpsrv_shutdown_KeepHandle(s) ==
  IF s = NULL THEN [srv |-> s, rc |-> EINVAL, stopped |-> FALSE]
  ELSE IF ~s.handle THEN [srv |-> s, rc |-> EALREADY, stopped |-> FALSE]
  ELSE [srv |-> s, rc |-> OK, stopped |-> TRUE]

\* sg_httpsrv_shutdown, lines 406-414: [srv, rc, stopped (MHD_stop_daemon ran)]
sg_httpsrv_shutdown(s) ==
  IF s = NULL THEN [srv |-> s, rc |-> EINVAL, stopped |-> FALSE]
  ELSE IF ~s.handle THEN [srv |-> s, rc |-> EALREADY, stopped |-> FALSE]
  ELSE [srv |-> [s EXCEPT !.handle = FALSE], rc |-> OK, stopped |-> TRUE]

\* host strings an application passes: none, an IPv4 literal, an IPv6
\* literal, a name that is neither
IPv4Literals == {"127.0.0.1", "0.0.0.0"}
IPv6Literals == {"::1"}
Hosts == {NullStr, "localhost"} \cup IPv4Literals \cup IPv6Literals

AF_INET == "AF_INET"
AF_INET6 == "AF_INET6"

\* inet_pton(af, host, dst): 1 when host is a literal of family af, else 0
inet_pton(af, host) ==
  IF af = AF_INET THEN (IF host \in IPv4Literals THEN 1 ELSE 0)
  ELSE (IF host \in IPv6Literals THEN 1 ELSE 0)

NoBind == [family |-> "none", addr |-> NullStr, dual |-> FALSE]

\* mutant: the IPv6 parse is made first
HostBind_V6First(host) ==
  IF host = NullStr
  THEN [ok |-> TRUE, parsed |-> <<>>,
        bind |-> [family |-> "any", addr |-> NullStr, dual |-> TRUE]]
  ELSE IF inet_pton(AF_INET6, host) = 1
  THEN [ok |-> TRUE, parsed |-> <<AF_INET6>>,
        bind |-> [family |-> AF_INET6, addr |-> host, dual |-> TRUE]]
  ELSE IF inet_pton(AF_INET, host) = 1
  THEN [ok |-> TRUE, parsed |-> <<AF_INET6, AF_INET>>,
        bind |-> [family |-> AF_INET, addr |-> host, dual |-> FALSE]]
  ELSE [ok |-> FALSE, parsed |-> <<AF_INET6, AF_INET>>, bind |-> NoBind]

\* lines 165-189: the socket address and MHD_USE_DUAL_STACK chosen from the
\* host name, with the inet_pton calls made on the way
HostBind(host) ==
  IF host = NullStr
  THEN [ok |-> TRUE, parsed |-> <<>>,
        bind |-> [family |-> "any", addr |-> NullStr, dual |-> TRUE]]
  ELSE IF inet_pton(AF_INET, host) = 1
  THEN [ok |-> TRUE, parsed |-> <<AF_INET>>,
        bind |-> [family |-> AF_INET, addr |-> host, dual |-> FALSE]]
  ELSE IF inet_pton(AF_INET6, host) = 1
  THEN [ok |-> TRUE, parsed |-> <<AF_INET, AF_INET6>>,
        bind |-> [family |-> AF_INET6, addr |-> host, dual |-> TRUE]]
  ELSE [ok |-> FALSE, parsed |-> <<AF_INET, AF_INET6>>, bind |-> NoBind]

\* lines 154-155: the configuration listen refuses
listen2_invalid(s) ==
  \/ ~s.upld_cb \/ ~s.upld_write_cb \/ ~s.upld_save_cb \/ ~s.upld_save_as_cb
  \/ ~s.uplds_dir
  \/ s.post_buf_size < MinPostBuf

\* line 225: srv->handle = MHD_start_daemon(...)
StartHandle(s, start) == start

\* line 148: struct MHD_OptionItem ops[14]
OpsCapacity == 14

\* the TLS arguments of a listen call: each string given (TRUE) or null
TlsArgs ==
  [key : BOOLEAN, pwd : BOOLEAN, cert : BOOLEAN, trust : BOOLEAN,
   dhparams : BOOLEAN, priorities : BOOLEAN]

NoTls ==
  [key |-> FALSE, pwd |-> FALSE, cert |-> FALSE, trust |-> FALSE,
   dhparams |-> FALSE, priorities |-> FALSE]

\* one entry as sg__httpsrv_addopt writes it (lines 136-138); the pointer
\* value is left out
Opt(option, value) == [option |-> option, value |-> value]

When(cond, entry) == IF cond THEN <<entry>> ELSE <<>>

\* mutant: the backlog is passed on whether or not TLS is enabled
TlsOps_BacklogOutside(tls, backlog) ==
  (IF tls.key /\ tls.cert
   THEN <<Opt("MHD_OPTION_HTTPS_MEM_KEY", 0)>>
        \o When(tls.pwd, Opt("MHD_OPTION_HTTPS_KEY_PASSWORD", 0))
        \o <<Opt("MHD_OPTION_HTTPS_MEM_CERT", 0)>>
        \o When(tls.trust, Opt("MHD_OPTION_HTTPS_MEM_TRUST", 0))
        \o When(tls.dhparams, Opt("MHD_OPTION_HTTPS_MEM_DHPARAMS", 0))
        \o When(tls.priorities, Opt("MHD_OPTION_HTTPS_PRIORITIES", 0))
   ELSE <<>>)
  \o When(backlog > 0, Opt("MHD_OPTION_LISTEN_BACKLOG_SIZE", backlog))

\* lines 203-222: the entries of the if (key && cert) block
TlsOps(tls, backlog) ==
  IF tls.key /\ tls.cert
  THEN <<Opt("MHD_OPTION_HTTPS_MEM_KEY", 0)>>
       \o When(tls.pwd, Opt("MHD_OPTION_HTTPS_KEY_PASSWORD", 0))
       \o <<Opt("MHD_OPTION_HTTPS_MEM_CERT", 0)>>
       \o When(tls.trust, Opt("MHD_OPTION_HTTPS_MEM_TRUST", 0))
       \o When(tls.dhparams, Opt("MHD_OPTION_HTTPS_MEM_DHPARAMS", 0))
       \o When(tls.priorities, Opt("MHD_OPTION_HTTPS_PRIORITIES", 0))
       \o When(backlog > 0, Opt("MHD_OPTION_LISTEN_BACKLOG_SIZE", backlog))
  ELSE <<>>

\* lines 163-223: the sg__httpsrv_addopt calls of one listen, in order
listen2_ops(s, tls, hb, backlog) ==
  <<Opt("MHD_OPTION_EXTERNAL_LOGGER", 0)>>
  \o When(hb.bind.family \in {AF_INET, AF_INET6}, Opt("MHD_OPTION_SOCK_ADDR", 0))
  \o <<Opt("MHD_OPTION_NOTIFY_COMPLETED", 0), Opt("MHD_OPTION_NOTIFY_CONNECTION", 0)>>
  \o When(s.con_limit > 0, Opt("MHD_OPTION_CONNECTION_LIMIT", s.con_limit))
  \o When(s.con_timeout > 0, Opt("MHD_OPTION_CONNECTION_TIMEOUT", s.con_timeout))
  \o When(s.thr_pool_size > 0, Opt("MHD_OPTION_THREAD_POOL_SIZE", s.thr_pool_size))
  \o TlsOps(tls, backlog)
  \o <<Opt("MHD_OPTION_END", 0)>>

\* what a write past ops[13] leaves for the engine to read there: the entry
\* written ("kept"), or something else ("lost") when that memory is reused
\* before MHD_start_daemon reads the array
OverrunOutcomes == {"kept", "lost"}

\* the outcomes one listen call can have: one unless it writes past the array
Overruns(s, tls, host, backlog) ==
  IF s # NULL /\ Len(listen2_ops(s, tls, HostBind(host), backlog)) > OpsCapacity
  THEN OverrunOutcomes ELSE {"kept"}

\* the option array as MHD_start_daemon reads it
OpsSeen(written, ub) ==
  IF Len(written) > OpsCapacity /\ ub = "lost"
  THEN SubSeq(written, 1, OpsCapacity) ELSE written

\* sg__httpsrv_listen2: [srv, ret, errno, errs (error callback calls),
\* attempted (MHD_start_daemon was called), started (it returned a daemon),
\* parsed, bind, ops (the entries written), pos, seen (the array as the engine
\* reads it)]; start: whether the engine is able to start; ub: the outcome
\* of a write past the array
sg__httpsrv_listen2(s, tls, host, backlog, start, ub) ==
  LET refused(e, n, hb) ==
        [srv |-> s, ret |-> FALSE, errno |-> e, errs |-> n, attempted |-> FALSE,
         started |-> FALSE, parsed |-> hb.parsed, bind |-> NoBind,
         ops |-> <<>>, pos |-> 0, seen |-> <<>>]
      none == [parsed |-> <<>>]
      hb == HostBind(host)
      written == listen2_ops(s, tls, hb, backlog)
  IN
  IF s = NULL THEN refused(EINVAL, 0, none)
  ELSE IF listen2_invalid(s) THEN refused(EINVAL, 0, none)
  ELSE IF ~hb.ok THEN refused(EINVAL, 1, hb)
  ELSE [srv |-> [s EXCEPT !.handle = StartHandle(s, start)],
        ret |-> StartHandle(s, start), errno |-> Untouched, errs |-> 0,
        attempted |-> TRUE, started |-> start, parsed |-> hb.parsed, bind |-> hb.bind,
        ops |-> written, pos |-> Len(written), seen |-> OpsSeen(written, ub)]

\* sg_httpsrv_tls_listen4, lines 348-357
sg_httpsrv_tls_listen4(s, tls, host, backlog, start, ub) ==
  IF tls.key /\ tls.cert THEN sg__httpsrv_listen2(s, tls, host, backlog, start, ub)
  ELSE [srv |-> s, ret |-> FALSE, errno |-> EINVAL, errs |-> 0, attempted |-> FALSE,
        started |-> FALSE, parsed |-> <<>>, bind |-> NoBind,
        ops |-> <<>>, pos |-> 0, seen |-> <<>>]

\* sg_httpsrv_listen2, lines 395-399
sg_httpsrv_listen2(s, host, backlog, start, ub) ==
  sg__httpsrv_listen2(s, NoTls, host, backlog, start, ub)

\* the application's last call: its name (op) and arguments (args), the
\* call before it and its result (prev), the server before it (pre), what it
\* returned (rc: an int result; ret: a bool
\* result), errno, what it did to the engine, and the engines of this server
\* now running (daemons)
NoApp ==
  [op |-> "none", args |-> <<>>, prev |-> <<"none", OK>>, pre |-> NULL, rc |-> OK, ret |-> FALSE, errno |-> Untouched,
   errs |-> 0, attempted |-> FALSE, started |-> FALSE, stopped |-> FALSE,
   parsed |-> <<>>, bind |-> NoBind, ops |-> <<>>, pos |-> 0, seen |-> <<>>,
   daemons |-> 0]

\* what every call resets in the record
Called(op, args) ==
  [NoApp EXCEPT !.op = op, !.args = args, !.prev = <<app.op, app.rc>>, !.pre = srv,
                !.daemons = app.daemons]

Untouching == <<env, conn, con_cls, last, hist, worker, mutex, fr, au>>

\* srv = sg_httpsrv_new2(auth_cb, req_cb, err_cb, cls)
AppNew ==
  /\ fr.pc = "idle"
  /\ srv = NULL
  /\ \E has_auth_cb \in BOOLEAN, has_req_cb \in BOOLEAN, has_err_cb \in BOOLEAN, cls \in BOOLEAN,
        res \in NewOutcomes :
       LET r == sg_httpsrv_new2(has_auth_cb, has_req_cb, has_err_cb, cls, res)
       IN /\ srv' = r.srv
          /\ app' = [Called("new2", <<has_auth_cb, has_req_cb, has_err_cb, cls, res>>) EXCEPT
                       !.errno = r.errno]
  /\ UNCHANGED Untouching

AppSetUpldCbs ==
  /\ fr.pc = "idle"
  /\ \E cb \in BOOLEAN, write_cb \in BOOLEAN, free_cb \in BOOLEAN, save_cb \in BOOLEAN,
        save_as_cb \in BOOLEAN :
       LET r == sg_httpsrv_set_upld_cbs(srv, cb, write_cb, free_cb, save_cb, save_as_cb)
       IN /\ srv' = r.srv
          /\ app' = [Called("set_upld_cbs", <<cb, write_cb, free_cb, save_cb, save_as_cb>>)
                       EXCEPT !.rc = r.rc]
  /\ UNCHANGED Untouching

AppSetUpldDir ==
  /\ fr.pc = "idle"
  /\ \E dir \in BOOLEAN, dup \in BOOLEAN :
       LET r == sg_httpsrv_set_upld_dir(srv, dir, dup)
       IN /\ srv' = r.srv
          /\ app' = [Called("set_upld_dir", <<dir>>) EXCEPT !.rc = r.rc]
  /\ UNCHANGED Untouching

AppSetPostBufSize ==
  /\ fr.pc = "idle"
  /\ \E size \in {MinPostBuf - 1, MinPostBuf, PostBufDefault} :
       LET r == sg_httpsrv_set_post_buf_size(srv, size)
       IN /\ srv' = r.srv
          /\ app' = [Called("set_post_buf_size", <<size>>) EXCEPT !.rc = r.rc]
  /\ UNCHANGED Untouching

\* sg_httpsrv_listen2(srv, hostname, port, backlog, threaded)
AppListen ==
  /\ fr.pc = "idle"
  /\ app.daemons < MaxDaemons
  /\ \E host \in env.hosts, backlog \in env.backlogs, start \in env.starts,
        ub \in OverrunOutcomes :
       LET r == sg_httpsrv_listen2(srv, host, backlog, start, ub)
       IN /\ srv' = r.srv
          /\ app' = [Called("listen", <<host, backlog>>) EXCEPT
                       !.ret = r.ret, !.errno = r.errno, !.errs = r.errs,
                       !.attempted = r.attempted, !.started = r.started,
                       !.parsed = r.parsed, !.bind = r.bind,
                       !.ops = r.ops, !.pos = r.pos, !.seen = r.seen,
                       !.daemons = app.daemons + (IF r.started THEN 1 ELSE 0)]
  /\ UNCHANGED Untouching

\* sg_httpsrv_tls_listen4(srv, key, pwd, cert, trust, dhparams, priorities,
\* hostname, port, backlog, threaded)
AppTlsListen4 ==
  /\ fr.pc = "idle"
  /\ app.daemons < MaxDaemons
  /\ \E tls \in env.tls, host \in env.hosts, backlog \in env.backlogs,
        start \in env.starts :
     \E ub \in Overruns(srv, tls, host, backlog) :
       LET r == sg_httpsrv_tls_listen4(srv, tls, host, backlog, start, ub)
       IN /\ srv' = r.srv
          /\ app' = [Called("tls_listen4", <<tls, host, backlog>>) EXCEPT
                       !.ret = r.ret, !.errno = r.errno, !.errs = r.errs,
                       !.attempted = r.attempted, !.started = r.started,
                       !.parsed = r.parsed, !.bind = r.bind,
                       !.ops = r.ops, !.pos = r.pos, !.seen = r.seen,
                       !.daemons = app.daemons + (IF r.started THEN 1 ELSE 0)]
  /\ UNCHANGED Untouching

AppSetThrPoolSize ==
  /\ fr.pc = "idle"
  /\ \E size \in 0..1 :
       LET r == sg_httpsrv_set_thr_pool_size(srv, size)
       IN /\ srv' = r.srv
          /\ app' = [Called("set_thr_pool_size", <<size>>) EXCEPT !.rc = r.rc]
  /\ UNCHANGED Untouching

AppSetConTimeout ==
  /\ fr.pc = "idle"
  /\ \E timeout \in 0..1 :
       LET r == sg_httpsrv_set_con_timeout(srv, timeout)
       IN /\ srv' = r.srv
          /\ app' = [Called("set_con_timeout", <<timeout>>) EXCEPT !.rc = r.rc]
  /\ UNCHANGED Untouching

AppSetConLimit ==
  /\ fr.pc = "idle"
  /\ \E limit \in 0..1 :
       LET r == sg_httpsrv_set_con_limit(srv, limit)
       IN /\ srv' = r.srv
          /\ app' = [Called("set_con_limit", <<limit>>) EXCEPT !.rc = r.rc]
  /\ UNCHANGED Untouching

AppShutdown ==
  /\ fr.pc = "idle"
  /\ LET r == sg_httpsrv_shutdown(srv)
     IN /\ srv' = r.srv
        /\ app' = [Called("shutdown", <<>>) EXCEPT
                     !.rc = r.rc, !.stopped = r.stopped,
                     !.daemons = app.daemons - (IF r.stopped THEN 1 ELSE 0)]
  /\ UNCHANGED Untouching

\* ------------------------------------------------------------ sg_httpsrv_free
\* connections a second server thread pool serves while free() runs
NumIso == 2

InList(list, e) == \E i \in 1..Len(list) : list[i] = e

\* the head of the list, 0 when it is empty
LL_head(list) == IF list = <<>> THEN 0 ELSE list[1]

\* (e)->next of an entry the list holds, 0 at the tail
LL_next(list, e) ==
  LET i == CHOOSE j \in 1..Len(list) : list[j] = e
  IN IF i < Len(list) THEN list[i + 1] ELSE 0

\* entries ever allocated: what a reference read from released memory may be
Allocated == {e \in Conns : worker[e].entry # "none"}

\* LL_FOREACH_SAFE at entry el: tmp = el->next. An entry no longer in the
\* list was released: the read yields null or any entry reference
SavedNext(el) ==
  IF InList(srv.isolated_list, el) THEN {LL_next(srv.isolated_list, el)}
  ELSE {0} \cup Allocated

\* the embedding application calls sg_httpsrv_free(srv); lines 318-319:
\* if (!srv) return
FreeCall ==
  /\ fr.pc = "idle"
  /\ app' = Called("free", <<>>)
  /\ fr' = IF srv = NULL THEN fr ELSE [fr EXCEPT !.pc = "l320"]
  /\ UNCHANGED <<srv, env, conn, con_cls, last, hist, worker, mutex, au>>

\* lines 320-321: lock; isolated = head; tmp = isolated->next
Free320 ==
  /\ fr.pc = "l320"
  /\ mutex = "none"
  /\ mutex' = "free"
  /\ LET el == LL_head(srv.isolated_list)
     IN IF el = 0
        THEN fr' = [fr EXCEPT !.pc = "l330", !.isolated = 0]
        ELSE \E nx \in SavedNext(el) :
               fr' = [fr EXCEPT !.pc = "l322", !.isolated = el, !.tmp = nx]
  /\ UNCHANGED <<srv, env, conn, con_cls, last, hist, worker, au, app>>

\* line 322: unlock inside the loop
Free322 ==
  /\ fr.pc = "l322"
  /\ mutex' = "none"
  /\ fr' = [fr EXCEPT !.pc = "l323"]
  /\ UNCHANGED <<srv, env, conn, con_cls, last, hist, worker, au, app>>

\* line 323: pthread_join is called on isolated->thread
Free323 ==
  /\ fr.pc = "l323"
  /\ fr' = [fr EXCEPT !.pc = "l323w",
                      !.stale = fr.stale \/ worker[fr.isolated].entry # "live",
                      !.unguarded = fr.unguarded \/ mutex # "free"]
  /\ UNCHANGED <<srv, env, conn, con_cls, last, hist, worker, mutex, au, app>>

\* line 323: pthread_join returns once the thread has terminated
Free323Joined ==
  /\ fr.pc = "l323w"
  /\ worker[fr.isolated].pc = "exit"
  /\ fr' = [fr EXCEPT !.pc = "l328", !.joined = fr.joined \cup {fr.isolated},
                      !.rejoined = fr.rejoined \/ fr.isolated \in fr.joined]
  /\ UNCHANGED <<srv, env, conn, con_cls, last, hist, worker, mutex, au, app>>

\* lines 328, 321: lock; isolated = tmp; tmp = isolated->next
Free328 ==
  /\ fr.pc = "l328"
  /\ mutex = "none"
  /\ mutex' = "free"
  /\ LET el == fr.tmp
     IN IF el = 0
        THEN fr' = [fr EXCEPT !.pc = "l330", !.isolated = 0]
        ELSE \E nx \in SavedNext(el) :
               fr' = [fr EXCEPT !.pc = "l322", !.isolated = el, !.tmp = nx,
                                !.stale = fr.stale \/ ~InList(srv.isolated_list, el)]
  /\ UNCHANGED <<srv, env, conn, con_cls, last, hist, worker, au, app>>

\* line 330: unlock after the join loop
Free330 ==
  /\ fr.pc = "l330"
  /\ mutex' = "none"
  /\ fr' = [fr EXCEPT !.pc = "l331"]
  /\ UNCHANGED <<srv, env, conn, con_cls, last, hist, worker, au, app>>

\* lines 333-336: info && info->suspended: MHD_resume_connection
ForceResumes(c) == conn[c].suspended

\* lines 331-339: lock; every entry left has its connection resumed if the
\* engine reports it suspended, is unlinked and released
Free331 ==
  /\ fr.pc = "l331"
  /\ mutex = "none"
  /\ mutex' = "free"
  /\ LET left == {e \in Conns : InList(srv.isolated_list, e)}
         hit == {e \in left : ForceResumes(e)}
     IN
     /\ conn' = [c \in Conns |->
                   IF c \in hit THEN [conn[c] EXCEPT !.suspended = FALSE] ELSE conn[c]]
     /\ hist' = [c \in Conns |->
                   IF c \in hit THEN Resumed(hist[c], conn[c].suspended) ELSE hist[c]]
     /\ worker' = [c \in Conns |->
                     IF c \in left THEN [worker[c] EXCEPT !.entry = "freed"] ELSE worker[c]]
     /\ srv' = [srv EXCEPT !.isolated_list = <<>>]
  /\ fr' = [fr EXCEPT !.pc = "l340", !.isolated = 0, !.tmp = 0]
  /\ UNCHANGED <<env, con_cls, last, au, app>>

\* mutant: the mutex is still held when the second loop is left
Free340_KeepLock ==
  /\ fr.pc = "l340"
  /\ fr' = [fr EXCEPT !.pc = "l341"]
  /\ UNCHANGED <<srv, env, conn, con_cls, last, hist, worker, mutex, au, app>>

\* line 340: unlock
Free340 ==
  /\ fr.pc = "l340"
  /\ mutex' = "none"
  /\ fr' = [fr EXCEPT !.pc = "l341"]
  /\ UNCHANGED <<srv, env, conn, con_cls, last, hist, worker, au, app>>

\* sg_httpsrv_shutdown, lines 406-414; MHD_stop_daemon waits for the access
\* handler calls in progress, closes every connection and notifies the
\* termination of every request
Free341 ==
  /\ fr.pc = "l341"
  /\ \A c \in Conns : conn[c].st \notin {"reg", "post"}
  /\ srv' = sg_httpsrv_shutdown(srv).srv
  /\ con_cls' = [c \in Conns |->
                   IF sg_httpsrv_shutdown(srv).stopped THEN sg__httpsrv_rcc(c).slot
                   ELSE con_cls[c]]
  /\ hist' = [c \in Conns |->
                IF sg_httpsrv_shutdown(srv).stopped THEN sg__httpsrv_rcc(c).hist
                ELSE hist[c]]
  /\ conn' = [c \in Conns |->
                IF sg_httpsrv_shutdown(srv).stopped /\ conn[c].st # "closed"
                THEN [conn[c] EXCEPT !.st = "gone"] ELSE conn[c]]
  /\ fr' = [fr EXCEPT !.pc = "done",
                      !.stop = [left |-> {e \in Conns : InList(srv.isolated_list, e)},
                                held |-> {c \in Conns : conn[c].suspended},
                                running |-> {c \in Conns : worker[c].pc \in {"run", "fin"}}]]
  /\ app' = [app EXCEPT !.rc = sg_httpsrv_shutdown(srv).rc,
                        !.stopped = sg_httpsrv_shutdown(srv).stopped,
                        !.daemons = app.daemons -
                                      (IF sg_httpsrv_shutdown(srv).stopped THEN 1 ELSE 0)]
  /\ UNCHANGED <<env, last, worker, mutex, au>>

\* ------------------------------------------------------------ auth object
\* the auth callback returns: the dispatcher stores its result (line 78)
AuReturn ==
  /\ \E b \in BOOLEAN : au' = [au EXCEPT !.op = "return", !.args = <<>>, !.ret = BoolToRet(b)]
  /\ UNCHANGED <<srv, env, conn, con_cls, last, hist, worker, mutex, fr, app>>

\* the response loses its connection reference
AuNullCon ==
  /\ au.conok
  /\ au' = [au EXCEPT !.op = "nullcon", !.args = <<>>, !.conok = FALSE]
  /\ UNCHANGED <<srv, env, conn, con_cls, last, hist, worker, mutex, fr, app>>

\* sg_httpauth_set_realm(auth, realm); null: the auth argument is NULL and
\* the call returns EINVAL
AuSetRealm ==
  /\ \E r \in {<<TRUE, "foo">>} \cup {<<FALSE, realm>> : realm \in {NullStr, "foo", "bar"}} :
       au' = [(IF r[1] THEN [au EXCEPT !.op = "set_realm", !.rc = EINVAL]
               ELSE httpauth_set_realm(au, r[2]))
              EXCEPT !.args = r]
  /\ UNCHANGED <<srv, env, conn, con_cls, last, hist, worker, mutex, fr, app>>

\* the arguments the deny calls are made with: <<auth is NULL, hdr, val>>
DenyArgs ==
  {<<TRUE, "Content-Type", "foo">>}
    \cup {<<FALSE, hdr, val>> : hdr \in {NullStr, "Content-Type", "bar"},
                               val \in {NullStr, "foo"}}

\* sg_httpauth_deny2(auth, hdr, val, status)
AuDeny ==
  /\ \E d \in DenyArgs, status \in {99, 100, 200, 599, 600} :
       au' = [(IF d[1] THEN [au EXCEPT !.op = "deny", !.rc = EINVAL]
               ELSE httpauth_deny2(au, d[2], d[3], status))
              EXCEPT !.args = <<d[1], d[2], d[3], status>>]
  /\ UNCHANGED <<srv, env, conn, con_cls, last, hist, worker, mutex, fr, app>>

\* sg_httpauth_deny(auth, hdr, val)
AuDenyDefault ==
  /\ \E d \in DenyArgs :
       au' = [(IF d[1] THEN [au EXCEPT !.op = "deny", !.rc = EINVAL]
               ELSE httpauth_deny(au, d[2], d[3]))
              EXCEPT !.args = <<d[1], d[2], d[3], MHD_HTTP_UNAUTHORIZED>>]
  /\ UNCHANGED <<srv, env, conn, con_cls, last, hist, worker, mutex, fr, app>>

AuCancel ==
  /\ au' = httpauth_cancel(au)
  /\ UNCHANGED <<srv, env, conn, con_cls, last, hist, worker, mutex, fr, app>>

\* sg__httpauth_dispatch(auth), as the dispatcher calls it at line 79
AuDispatch ==
  /\ LET d == httpauth_dispatch(au)
     IN au' = [au EXCEPT !.op = "dispatch", !.args = <<>>, !.ok = d.ok, !.ret = d.ret,
                         !.queued = d.queued,
                         !.pre = [ret |-> au.ret, canceled |-> au.canceled,
                                  handle |-> au.handle, conok |-> au.conok]]
  /\ UNCHANGED <<srv, env, conn, con_cls, last, hist, worker, mutex, fr, app>>

\* ------------------------------------------------------------ specification
NoConn ==
  [st |-> "closed", cliflag |-> FALSE, socket_context |-> FALSE, suspended |-> FALSE, body |-> 0,
   queued |-> FALSE, nreq |-> 0]

\* sg_httpsrv_free's thread: pc (the line it is at; "off": never called),
\* its cursors isolated and tmp (0: null), whether it followed a reference to
\* an entry no longer in the registry (stale), the entries it joined and
\* whether it joined one of them again (rejoined), whether
\* it read an entry while not holding the mutex (unguarded), and what it left
\* when it stopped the engine (stop): the entries still registered (left),
\* the connections still suspended (held), the workers still running
NoFree ==
  [pc |-> "off", isolated |-> 0, tmp |-> 0, stale |-> FALSE, joined |-> {},
   rejoined |-> FALSE, unguarded |-> FALSE, stop |-> [left |-> {}, held |-> {}, running |-> {}]]

\* a listening server (sg_httpsrv_new2 then listen): the auth and
\* client-connect callbacks are optional, the registry is empty
InitWith(N, chunks, reqs, B) ==
  /\ \E a \in B, cl \in B :
       srv = [auth_cb |-> a, cli_cb |-> cl, handle |-> TRUE, isolated_list |-> <<>>]
  /\ env = [chunks |-> chunks, reqs |-> reqs, req_cb |-> HandlerOutcomes,
            isolated_cb |-> {"send", "none"}, hosts |-> {}, backlogs |-> {}, starts |-> {}, tls |-> {}]
  /\ conn = [c \in N |-> NoConn]
  /\ con_cls = [c \in N |-> NULL]
  /\ last = [c \in N |-> NoCall]
  /\ hist = [c \in N |-> NoHist]
  /\ worker = [c \in N |-> NoWorker]
  /\ mutex = "none"
  /\ fr = NoFree
  /\ au = httpauth_new
  /\ app = NoApp

Init == InitWith(DispatchConns, MaxChunks, MaxReqs, BOOLEAN)

Next ==
  \/ \E c \in Conns : NotifyStarted(c)
  \/ \E c \in Conns : AhcAccess(c)
  \/ \E c \in Conns : IsolateRegister(c)
  \/ \E c \in Conns : AhcPost(c)
  \/ \E c \in Conns : WorkerHandler(c)
  \/ \E c \in Conns : WorkerDeregister(c)
  \/ \E c \in Conns : WorkerResume(c)
  \/ \E c \in Conns : Completed(c)
  \/ \E c \in Conns : NotifyClosed(c)

Spec == Init /\ [][Next]_vars

\* the same server under fair scheduling: the engine's polling threads go on
\* calling the access handler for every request in progress whose connection
\* is not suspended and let a call in progress return (sg_httpreq_isolate's
\* registration, the post-handler step), and a worker thread that was created
\* goes on running until it exits
Fairness ==
  \A c \in DispatchConns :
    /\ WF_vars(AhcAccess(c))
    /\ WF_vars(IsolateRegister(c))
    /\ WF_vars(AhcPost(c))
    /\ WF_vars(WorkerHandler(c))
    /\ WF_vars(WorkerResume(c))
    /\ WF_vars(WorkerDeregister(c))

SpecFair == Init /\ [][Next]_vars /\ Fairness

\* a server without auth or client-connect callback, its connections
\* accepted, each serving one request without a body; the request handler
\* isolates every request and the isolated handler sends a response, while
\* the application calls sg_httpsrv_free
InitIso ==
  /\ srv = [auth_cb |-> FALSE, cli_cb |-> FALSE, handle |-> TRUE, isolated_list |-> <<>>]
  /\ env = [chunks |-> 0, reqs |-> 1, req_cb |-> {"isolate"}, isolated_cb |-> {"send"},
            hosts |-> {}, backlogs |-> {}, starts |-> {}, tls |-> {}]
  /\ conn = [c \in 1..NumIso |-> [NoConn EXCEPT !.st = "open"]]
  /\ con_cls = [c \in 1..NumIso |-> NULL]
  /\ last = [c \in 1..NumIso |-> NoCall]
  /\ hist = [c \in 1..NumIso |-> NoHist]
  /\ worker = [c \in 1..NumIso |-> NoWorker]
  /\ mutex = "none"
  /\ fr = [NoFree EXCEPT !.pc = "idle"]
  /\ au = httpauth_new
  /\ app = [NoApp EXCEPT !.daemons = 1]

NextIso ==
  \/ \E c \in Conns : AhcAccess(c)
  \/ \E c \in Conns : IsolateRegister(c)
  \/ \E c \in Conns : AhcPost(c)
  \/ \E c \in Conns : WorkerHandler(c)
  \/ \E c \in Conns : WorkerResume(c)
  \/ \E c \in Conns : WorkerDeregister(c)
  \/ \E c \in Conns : Completed(c)
  \/ FreeCall
  \/ Free320
  \/ Free322
  \/ Free323
  \/ Free323Joined
  \/ Free328
  \/ Free330
  \/ Free331
  \/ Free340
  \/ Free341

SpecIso == InitIso /\ [][NextIso]_vars

\* an application with no server yet, making the lifecycle calls in any order
\* and sg_httpsrv_free last; no connection is ever accepted, so the registry
\* stays empty and the loop bodies of sg_httpsrv_free (lines 322-328) are
\* never entered
InitLife ==
  /\ srv = NULL
  /\ env = [chunks |-> 0, reqs |-> 0, req_cb |-> {}, isolated_cb |-> {},
            hosts |-> Hosts, backlogs |-> {0}, starts |-> BOOLEAN, tls |-> {}]
  /\ conn = [c \in {} |-> NoConn]
  /\ con_cls = [c \in {} |-> NULL]
  /\ last = [c \in {} |-> NoCall]
  /\ hist = [c \in {} |-> NoHist]
  /\ worker = [c \in {} |-> NoWorker]
  /\ mutex = "none"
  /\ fr = [NoFree EXCEPT !.pc = "idle"]
  /\ au = httpauth_new
  /\ app = NoApp

NextLife ==
  \/ AppNew
  \/ AppSetUpldCbs
  \/ AppSetUpldDir
  \/ AppSetPostBufSize
  \/ AppListen
  \/ AppShutdown
  \/ FreeCall
  \/ Free320
  \/ Free330
  \/ Free331
  \/ Free340
  \/ Free341

SpecLife == InitLife /\ [][NextLife]_vars

\* an application that has a new server and configures and starts it: the
\* tuning setters and the listen calls, with or without TLS, host and backlog;
\* the optional TLS arguments vary when key and certificate are both given
InitOpts ==
  /\ srv = sg_httpsrv_new2(FALSE, TRUE, TRUE, FALSE, "ok").srv
  /\ env = [chunks |-> 0, reqs |-> 0, req_cb |-> {}, isolated_cb |-> {},
            hosts |-> {NullStr, "127.0.0.1"}, backlogs |-> {0, 1}, starts |-> {TRUE},
            tls |-> {t \in TlsArgs : (t.key /\ t.cert) \/ t = [NoTls EXCEPT !.key = t.key, !.cert = t.cert]}]
  /\ conn = [c \in {} |-> NoConn]
  /\ con_cls = [c \in {} |-> NULL]
  /\ last = [c \in {} |-> NoCall]
  /\ hist = [c \in {} |-> NoHist]
  /\ worker = [c \in {} |-> NoWorker]
  /\ mutex = "none"
  /\ fr = [NoFree EXCEPT !.pc = "idle"]
  /\ au = httpauth_new
  /\ app = NoApp

NextOpts ==
  \/ AppSetThrPoolSize
  \/ AppSetConTimeout
  \/ AppSetConLimit
  \/ AppTlsListen4
  \/ AppListen

SpecOpts == InitOpts /\ [][NextOpts]_vars

\* an auth object on its own, as test_httpauth.c drives it
InitAuth == InitWith({}, 0, 0, {FALSE})

NextAuth ==
  \/ AuReturn
  \/ AuNullCon
  \/ AuSetRealm
  \/ AuDeny
  \/ AuDenyDefault
  \/ AuCancel
  \/ AuDispatch

SpecAuth == InitAuth /\ [][NextAuth]_vars

\* ------------------------------------------------------------ properties
HasReq(c) == con_cls[c] # NULL

\* a finished call (the handler, if any, has returned)
Finished(c) == last[c].kind # "none" /\ ~last[c].inflight

\* C1: for a request that is not isolated and that the auth gate neither
\* rejected nor canceled, the request callback is invoked at most once, never
\* in a call that carries body bytes or while body chunks are still to come,
\* and exactly once as soon as the final empty call has been made.
C1_HandlerExactlyOnce ==
  \A c \in Conns :
    (HasReq(c) /\ ~con_cls[c].isolated /\ ~con_cls[c].canceled
       /\ hist[c].gate # "reject") =>
      /\ hist[c].reqcbn <= 1
      /\ last[c].reqcb => ~last[c].bytes /\ conn[c].body = 0
      /\ hist[c].reqcbn = 1 => conn[c].body = 0
      /\ (last[c].kind = "data" /\ ~last[c].bytes /\ Finished(c)) => hist[c].reqcbn = 1
      /\ (last[c].kind = "data" /\ last[c].bytes) => hist[c].reqcbn = 0

C1_Witness ==
  \E c \in Conns :
    /\ HasReq(c) /\ ~con_cls[c].isolated /\ ~con_cls[c].canceled
    /\ hist[c].gate = "proceed"
    /\ last[c].kind = "data" /\ ~last[c].bytes
    /\ hist[c].upldn = MaxChunks + 1
    /\ hist[c].reqcbn = 1

\* C2: with an auth callback configured, the callback and the auth gate run
\* exactly once per request, in the call that creates the request and in no
\* data call, hence before any upload processing or request-handler call.
C2_AuthOncePerRequest ==
  \A c \in Conns :
    /\ hist[c].authn <= 1
    /\ hist[c].order
    /\ last[c].auth => last[c].kind = "start"
    /\ last[c].kind = "data" => ~last[c].auth
    /\ srv.auth_cb =>
         /\ HasReq(c) => hist[c].authn = 1
         /\ (last[c].kind = "start" /\ HasReq(c)) => last[c].auth
         /\ (hist[c].upldn > 0 \/ hist[c].reqcbn > 0) => hist[c].authn = 1

C2_Witness ==
  \E c \in Conns :
    /\ srv.auth_cb /\ HasReq(c) /\ hist[c].authn = 1
    /\ hist[c].upldn > 1 /\ hist[c].reqcbn = 1
    /\ conn[c].nreq > 0

\* C3: when the auth gate's verdict is reject-without-response (the gate's
\* dispatch failed) or proceed-with-response (canceled under denial), the
\* engine receives that verdict or the denial response, and in no call of the
\* request is the upload engine fed or the request callback invoked.
C3_AuthVerdictFinal ==
  \A c \in Conns :
    /\ (HasReq(c) /\ hist[c].gate = "reject") =>
         /\ hist[c].upldn = 0 /\ hist[c].reqcbn = 0
         /\ last[c].kind = "start" /\ conn[c].st = "done"
         /\ last[c].ret = con_cls[c].ret
         /\ last[c].ret = MHD_NO \/ conn[c].queued
    /\ (HasReq(c) /\ hist[c].gate = "respond") =>
         /\ hist[c].upldn = 0 /\ hist[c].reqcbn = 0
         /\ \/ last[c].kind = "start" /\ last[c].ret = MHD_YES /\ conn[c].st = "req"
            \/ /\ last[c].kind = "data" /\ ~last[c].upld /\ ~last[c].reqcb
               /\ last[c].disp /\ last[c].ret = MHD_YES
               /\ conn[c].queued /\ conn[c].st = "done"
    /\ (HasReq(c) /\ con_cls[c].canceled) => hist[c].upldn = 0 /\ hist[c].reqcbn = 0

C3_Witness ==
  \E c \in Conns :
    /\ HasReq(c) /\ hist[c].gate = "respond"
    /\ last[c].kind = "data" /\ last[c].bytes /\ last[c].disp /\ conn[c].queued

C5_AuthDispatchTable ==
  au.op = "dispatch" =>
    LET in == au.pre IN
    /\ in.ret = MHD_YES => au.ok /\ au.ret = MHD_YES
    /\ (in.ret = MHD_NO /\ in.canceled /\ in.handle) => au.ok /\ au.ret = MHD_YES
    /\ (in.ret = MHD_NO /\ in.canceled /\ ~in.handle) => ~au.ok /\ au.ret = MHD_NO
    /\ (in.ret = MHD_NO /\ ~in.canceled /\ ~in.handle) => ~au.ok /\ au.ret = MHD_NO
    /\ (in.ret = MHD_NO /\ ~in.canceled /\ in.handle /\ ~in.conok) =>
         ~au.ok /\ au.ret = MHD_NO

C5_Witness ==
  /\ au.op = "dispatch"
  /\ au.pre = [ret |-> MHD_NO, canceled |-> FALSE, handle |-> TRUE, conok |-> FALSE]
  /\ ~au.ok /\ au.ret = MHD_NO

\* C6: in a data call where the upload engine reports a terminal condition
\* the dispatcher returns the upload engine's verdict at once: no request
\* callback, no suspended-state query, no dispatch of the prepared response.
C6_UploadTerminalReturns ==
  \A c \in Conns :
    (last[c].kind = "data" /\ last[c].term) =>
      /\ last[c].upld
      /\ ~last[c].reqcb /\ ~last[c].squery /\ ~last[c].disp /\ ~last[c].inflight
      /\ last[c].ret = last[c].pret
      /\ hist[c].reqcbn = 0

C6_Witness ==
  \E c \in Conns :
    /\ last[c].kind = "data" /\ last[c].term /\ last[c].pret = MHD_NO
    /\ conn[c].st = "done" /\ hist[c].upldn = MaxChunks

\* C7: in the post-handler step the dispatcher returns keep-waiting without
\* dispatching exactly when the engine reports the connection suspended;
\* otherwise it dispatches the prepared response and returns the dispatch
\* result. No response is dispatched while its connection is suspended.
C7_PostHandler ==
  \A c \in Conns :
    /\ (Finished(c) /\ last[c].squery) =>
         /\ last[c].susp <=> ~last[c].disp
         /\ last[c].susp => last[c].ret = MHD_YES /\ ~conn[c].queued
         /\ (last[c].disp /\ HasReq(c)) =>
              /\ last[c].ret = con_cls[c].ret
              /\ last[c].ret = httpres_dispatch(con_cls[c]).ret
              /\ conn[c].queued = httpres_dispatch(con_cls[c]).queued
    /\ last[c].disp => last[c].squery
    /\ conn[c].queued => ~conn[c].suspended

C7_Witness ==
  \E c \in Conns :
    /\ Finished(c) /\ last[c].squery /\ last[c].susp /\ ~last[c].disp
    /\ conn[c].suspended /\ conn[c].st = "req"

C7_WitnessDispatch ==
  \E c \in Conns :
    /\ Finished(c) /\ last[c].squery /\ ~last[c].susp /\ last[c].disp
    /\ HasReq(c) /\ con_cls[c].isolated /\ conn[c].queued

\* C8: at every termination notification a request held by the slot is
\* cleaned up before it is freed and the slot is null afterwards, so every
\* request the dispatcher created is cleaned up and freed exactly once.
C8_TerminationFrees ==
  \A c \in Conns :
    /\ hist[c].leaked = 0
    /\ hist[c].cleaned = hist[c].freed
    /\ hist[c].created = hist[c].freed + (IF HasReq(c) THEN 1 ELSE 0)
    /\ hist[c].freed <= conn[c].nreq
    /\ conn[c].st \in {"closed", "open", "closing", "gone"} => ~HasReq(c)
    /\ (conn[c].st = "gone" /\ ~conn[c].socket_context) => hist[c].freed = conn[c].nreq

C8_Witness ==
  \E c \in Conns :
    /\ conn[c].st = "gone" /\ ~HasReq(c)
    /\ hist[c].created = MaxReqs /\ hist[c].freed = MaxReqs /\ hist[c].cleaned = MaxReqs
    /\ worker[c].pc = "exit"

\* C9: a connection the client-connect callback claimed (it set its output
\* flag at connection start) has every dispatcher call rejected: no request is
\* created, no auth callback, upload engine or request handler runs. A
\* connection whose flag stayed false, and any connection of a server without
\* a client-connect callback, is never rejected for that reason.
C9_ClaimedRejected ==
  \A c \in Conns :
    /\ conn[c].cliflag =>
         /\ ~HasReq(c) /\ hist[c].created = 0
         /\ last[c].kind \in {"none", "reject"}
         /\ hist[c].authn = 0 /\ hist[c].upldn = 0 /\ hist[c].reqcbn = 0
    /\ last[c].kind = "reject" =>
         /\ conn[c].cliflag /\ srv.cli_cb
         /\ last[c].ret = MHD_NO /\ ~last[c].auth /\ ~last[c].upld /\ ~last[c].reqcb
    /\ ~srv.cli_cb => ~conn[c].cliflag /\ ~conn[c].socket_context
    /\ (~conn[c].cliflag /\ last[c].kind # "none") => last[c].kind \in {"start", "data"}

C9_Witness ==
  \E c \in Conns :
    /\ conn[c].cliflag /\ last[c].kind = "reject" /\ conn[c].st = "closing"
    /\ ~HasReq(c) /\ srv.auth_cb

\* C10: every suspend of a connection made by an isolation is matched by
\* exactly one resume, by the completing worker or by sg_httpsrv_free's
\* force-resume, on every interleaving of the two: no connection is resumed
\* more often than it was suspended, none is resumed while not suspended,
\* none is left suspended once sg_httpsrv_free has returned, and a worker
\* that has exited leaves its suspend matched.
C10_SuspendResumePaired ==
  \A c \in Conns :
    /\ hist[c].nres <= hist[c].nsusp
    /\ ~hist[c].badres
    /\ fr.pc = "done" => ~conn[c].suspended
    /\ worker[c].pc = "exit" => hist[c].nres = hist[c].nsusp

\* C11: the isolation registry is guarded by the server's one mutex with no
\* nested locking: the thread running sg_httpsrv_free never waits in
\* pthread_join while it holds the mutex, never locks the mutex while it
\* already holds it, and holds the mutex wherever it reads or removes a
\* registry entry.
C11_MutexDiscipline ==
  /\ fr.pc = "l323w" => mutex # "free"
  /\ fr.pc \in {"l320", "l328", "l331"} => mutex # "free"
  /\ ~fr.unguarded

\* C12: sg_httpsrv_free stops the engine only after every registered worker
\* was joined and every entry whose connection was still suspended was
\* resumed: when the engine is stopped the registry is empty, no connection
\* is suspended and no worker is still running.
C12_StopAfterDrain ==
  fr.pc = "done" =>
    /\ fr.stop.left = {}
    /\ fr.stop.held = {}
    /\ fr.stop.running = {}

\* C13: sg_httpsrv_shutdown is idempotent. On a server with an active engine
\* handle it stops the engine once, clears the handle and returns 0; on a
\* server with no active handle (never listened, or shut down already) it
\* returns EALREADY, stops nothing and changes nothing, at every repetition.
C13_ShutdownIdempotent ==
  app.op = "shutdown" =>
    IF app.pre = NULL THEN app.rc = EINVAL /\ ~app.stopped /\ srv = NULL
    ELSE IF app.pre.handle
    THEN /\ app.rc = OK /\ app.stopped
         /\ ~srv.handle
         /\ srv = [app.pre EXCEPT !.handle = FALSE]
    ELSE app.rc = EALREADY /\ ~app.stopped /\ srv = app.pre

\* a shutdown repeated right after one that stopped the engine
C13_Witness ==
  /\ app.op = "shutdown" /\ app.rc = EALREADY
  /\ app.prev = <<"shutdown", OK>>
  /\ srv # NULL /\ ~srv.handle

\* C14: sg_httpsrv_new2 returns null with EINVAL and creates no server when
\* the request callback or the error callback is omitted, whatever the auth
\* callback and the context are. With both present (the auth callback is
\* optional) the server it returns has no engine handle and an empty
\* isolation registry; it returns null then only when an allocation failed.
C14_NewValidates ==
  app.op = "new2" =>
    LET has_auth == app.args[1]
        has_req == app.args[2]
        has_err == app.args[3]
        res == app.args[5]
    IN
    /\ (~has_req \/ ~has_err) => srv = NULL /\ app.errno = EINVAL
    /\ (has_req /\ has_err /\ res = "ok") =>
         /\ srv # NULL
         /\ ~srv.handle /\ srv.isolated_list = <<>>
         /\ srv.auth_cb = has_auth /\ srv.req_cb /\ srv.err_cb
         /\ app.errno = Untouched
    /\ (has_req /\ has_err /\ res # "ok") => srv = NULL /\ app.errno # EINVAL

\* a server built without an auth callback
C14_Witness ==
  /\ app.op = "new2" /\ ~app.args[1] /\ app.args[2] /\ app.args[3]
  /\ srv # NULL /\ ~srv.auth_cb /\ ~srv.handle

\* C15: listen returns false with EINVAL, starts no engine and leaves the
\* server's handle and configuration as they were whenever the post-buffer
\* size is below 256, the uploads directory is unset, or a required upload
\* hook (upload callback, write, free, save, save-as) is unset.
C15_ListenValidates ==
  (app.op = "listen" /\ app.pre # NULL) =>
    LET s == app.pre
    IN (\/ s.post_buf_size < MinPostBuf
        \/ ~s.uplds_dir
        \/ ~s.upld_cb \/ ~s.upld_write_cb \/ ~s.upld_free_cb
        \/ ~s.upld_save_cb \/ ~s.upld_save_as_cb)
       => /\ ~app.ret /\ app.errno = EINVAL
          /\ ~app.attempted
          /\ srv = s

\* C16: when the engine fails to start, listen returns false, the handle is
\* null afterwards and no engine of the server is left running; when it
\* starts, listen returns true and the handle refers to the running engine.
C16_StartOutcome ==
  (app.op = "listen" /\ app.attempted) =>
    IF app.started
    THEN app.ret /\ srv.handle /\ app.daemons >= 1
    ELSE ~app.ret /\ ~srv.handle /\ app.daemons = 0

\* C17: host resolution in listen. No host: the dual-stack wildcard is bound.
\* A host that parses as an IPv4 literal: that address is bound and the IPv6
\* parse is not attempted. Else a host that parses as an IPv6 literal: that
\* address is bound. Else the error callback is called once, listen returns
\* false, no engine is started and the handle is unchanged.
C17_HostResolution ==
  (app.op = "listen" /\ app.pre # NULL) =>
    LET host == app.args[1]
        valid == ~listen2_invalid(app.pre)
    IN
    /\ (valid /\ host = NullStr) =>
         /\ app.attempted /\ app.errs = 0 /\ app.parsed = <<>>
         /\ app.bind = [family |-> "any", addr |-> NullStr, dual |-> TRUE]
    /\ (valid /\ host \in IPv4Literals) =>
         /\ app.attempted /\ app.errs = 0 /\ app.parsed = <<AF_INET>>
         /\ app.bind = [family |-> AF_INET, addr |-> host, dual |-> FALSE]
    /\ (valid /\ host \in IPv6Literals) =>
         /\ app.attempted /\ app.errs = 0 /\ app.parsed = <<AF_INET, AF_INET6>>
         /\ app.bind = [family |-> AF_INET6, addr |-> host, dual |-> TRUE]
    /\ (valid /\ host \notin {NullStr} \cup IPv4Literals \cup IPv6Literals) =>
         /\ app.errs = 1 /\ ~app.ret /\ app.errno = EINVAL
         /\ ~app.attempted /\ ~app.started
         /\ srv = app.pre
    /\ app.errs > 0 => (valid /\ host \notin {NullStr} \cup IPv4Literals \cup IPv6Literals)

\* a host that is no literal, given to a server that is listening
C17_Witness ==
  /\ app.op = "listen" /\ app.args[1] = "localhost"
  /\ app.errs = 1 /\ ~app.ret
  /\ srv # NULL /\ srv.handle

\* the arguments of a deny call are valid
DenyArgsValid(args) ==
  /\ ~args[1] /\ args[2] # NullStr /\ args[3] # NullStr
  /\ args[4] >= 100 /\ args[4] < 600

\* the denial response of an auth object
Denial(a) == [handle |-> a.handle, status |-> a.status, hdr |-> a.hdr, val |-> a.val]

\* C18: the realm of an auth object is write-once. On a fresh object the
\* first set_realm with a non-null value returns 0 and stores it; every later
\* set_realm, with the same or another value, returns EALREADY and leaves the
\* realm as first set; set_realm with a null auth or a null value returns
\* EINVAL and sets nothing. No other call changes a realm that is set.
C18_RealmWriteOnce ==
  [][/\ au.realm # NullStr => au'.realm = au.realm
     /\ au'.op = "set_realm" =>
          IF au'.args[1] \/ au'.args[2] = NullStr
          THEN au'.rc = EINVAL /\ au'.realm = au.realm
          ELSE IF au.realm = NullStr
          THEN au'.rc = OK /\ au'.realm = au'.args[2]
          ELSE au'.rc = EALREADY /\ au'.realm = au.realm]_vars

\* set_realm("bar") refused on an object whose realm is "foo"
C18_Witness ==
  /\ au.op = "set_realm" /\ au.args = <<FALSE, "bar">>
  /\ au.rc = EALREADY /\ au.realm = "foo"

\* C19: deny with a status outside [100,600), or with a null auth, header or
\* value, returns EINVAL and produces no response: the denial response, its
\* status and its header are as before the call, and a valid deny made later
\* on an object without a denial succeeds as the first one.
C19_DenyValidates ==
  [][au'.op = "deny" =>
       /\ ~DenyArgsValid(au'.args) =>
            au'.rc = EINVAL /\ Denial(au') = Denial(au) /\ au'.ret = au.ret
       /\ (DenyArgsValid(au'.args) /\ ~au.handle) =>
            /\ au'.rc = OK
            /\ Denial(au') = [handle |-> TRUE, status |-> au'.args[4],
                              hdr |-> au'.args[2], val |-> au'.args[3]]]_vars

\* deny with status 600 on an object that composed no response
C19_Witness ==
  /\ au.op = "deny" /\ au.args = <<FALSE, "Content-Type", "foo", 600>>
  /\ au.rc = EINVAL /\ ~au.handle /\ au.status = 0

\* C20: the denial response of an auth object is set once. The first valid
\* deny (with a status, or the variant that uses 401) composes the response
\* with its header, value and status; every later deny with valid arguments
\* returns EALREADY, one with invalid arguments returns EINVAL, and both leave
\* the status, header and value of the first call as they are.
C20_DenyOnce ==
  [][/\ au.handle => Denial(au') = Denial(au)
     /\ au'.op = "deny" =>
          /\ (DenyArgsValid(au'.args) /\ ~au.handle) =>
               /\ au'.rc = OK
               /\ Denial(au') = [handle |-> TRUE, status |-> au'.args[4],
                                 hdr |-> au'.args[2], val |-> au'.args[3]]
          /\ (DenyArgsValid(au'.args) /\ au.handle) => au'.rc = EALREADY
          /\ (~DenyArgsValid(au'.args) /\ au.handle) => au'.rc = EINVAL]_vars

\* a second deny refused on an object denied with the default status
C20_Witness ==
  /\ au.op = "deny" /\ au.args = <<FALSE, "bar", "foo", 200>>
  /\ au.rc = EALREADY
  /\ au.handle /\ au.status = MHD_HTTP_UNAUTHORIZED /\ au.hdr = "Content-Type"

\* C20 as stated: every later deny call, with any arguments, returns EALREADY
C20_Original ==
  [][(au'.op = "deny" /\ au.handle) =>
       au'.rc = EALREADY /\ Denial(au') = Denial(au)]_vars

\* C21 (as amended): sg_httpauth_cancel sets the canceled flag and returns 0,
\* and repeating it changes nothing; a request whose auth callback called it
\* is never fed to the upload engine and its request handler is never invoked:
\* every later call of the dispatcher goes straight to the response dispatch,
\* which queues the response the auth callback composed or fails without one.
C21_CancelSkipsBody ==
  /\ httpauth_cancel(au).canceled /\ httpauth_cancel(au).rc = OK
  /\ httpauth_cancel(httpauth_cancel(au)) = httpauth_cancel(au)
  /\ \A c \in Conns :
       (HasReq(c) /\ con_cls[c].canceled) =>
         /\ hist[c].authn = 1 /\ hist[c].gate # "none"
         /\ last[c].kind = "data" =>
              /\ ~last[c].upld /\ ~last[c].reqcb /\ last[c].disp
              /\ conn[c].st = "done"
              /\ last[c].ret = httpres_dispatch(con_cls[c]).ret
              /\ conn[c].queued = httpres_dispatch(con_cls[c]).queued

C21_Witness ==
  \E c \in Conns :
    /\ HasReq(c) /\ con_cls[c].canceled /\ hist[c].gate = "proceed"
    /\ last[c].kind = "data" /\ last[c].bytes /\ last[c].ret = MHD_NO

\* C21 as first stated: a request whose auth callback called
\* sg_httpauth_cancel and that the gate let through has its body fed to the
\* upload engine and its request handler invoked.
C21_Original ==
  \A c \in Conns :
    (HasReq(c) /\ con_cls[c].canceled /\ hist[c].gate # "reject"
       /\ last[c].kind = "data") =>
      last[c].upld /\ (~last[c].bytes => hist[c].reqcbn = 1)

\* the call in progress or last made is sg_httpsrv_free on a server that had
\* no active handle and an empty isolation registry
FreeOfIdle ==
  /\ app.op = "free" /\ app.pre # NULL
  /\ ~app.pre.handle /\ app.pre.isolated_list = <<>>

\* C22: sg_httpsrv_free on a server with an empty isolation registry and no
\* active handle (never listened, or already shut down) never enters either
\* loop body, so it joins no thread and resumes no connection; it holds the
\* mutex only between lines 320-330 and 331-340 and finds it free when it
\* locks, its sg_httpsrv_shutdown finds no handle and stops no engine, and it
\* ends with the mutex released; sg_httpsrv_free(NULL) returns at once and
\* changes nothing.
C22_FreeIdleServer ==
  /\ (app.op = "free" /\ app.pre = NULL) =>
       srv = NULL /\ fr.pc = "idle" /\ mutex = "none" /\ ~app.stopped
  /\ FreeOfIdle =>
       /\ fr.pc \in {"l320", "l330", "l331", "l340", "l341", "done"}
       /\ fr.joined = {} /\ ~fr.stale /\ ~fr.unguarded
       /\ srv = app.pre
       /\ mutex = (IF fr.pc \in {"l330", "l340"} THEN "free" ELSE "none")
       /\ fr.pc = "done" =>
            /\ app.rc = EALREADY /\ ~app.stopped
            /\ fr.stop.left = {} /\ fr.stop.held = {} /\ fr.stop.running = {}

\* a server that listened and was shut down has been freed
C22_Witness ==
  /\ FreeOfIdle /\ fr.pc = "done"
  /\ app.prev = <<"shutdown", OK>> /\ mutex = "none"

\* sg_httpsrv_free(NULL) has returned
C22_WitnessNull ==
  app.op = "free" /\ app.pre = NULL /\ app.prev[1] = "new2"

\* C23: a call of sg_httpreq_isolate with a null request or a null handler
\* function returns EINVAL and has no effect: in the dispatcher call whose
\* request callback made it, the request is not marked isolated, the
\* connection's suspended state is unchanged and no suspend is counted, no
\* worker is created and the isolation registry is unchanged.
C23_IsolateValidates ==
  [][\A c \in Conns :
       (last'[c] # last[c] /\ last'[c].isocall \in {"isolate_noreq", "isolate_nocb"}) =>
         /\ last'[c].reqcb /\ last'[c].isorc = EINVAL
         /\ ~con_cls'[c].isolated /\ ~last'[c].inflight
         /\ conn'[c].suspended = conn[c].suspended
         /\ hist'[c].nsusp = hist[c].nsusp
         /\ worker'[c] = worker[c]
         /\ srv'.isolated_list = srv.isolated_list
         /\ conn'[c].st # "reg"]_vars

C23_Witness ==
  \E c \in Conns :
    /\ HasReq(c) /\ last[c].isocall = "isolate_nocb" /\ last[c].isorc = EINVAL
    /\ ~con_cls[c].isolated /\ worker[c].pc = "none" /\ ~conn[c].suspended
    /\ srv.isolated_list = <<>>

\* the request in the slot was isolated by its handler
Isolated(c) == HasReq(c) /\ con_cls[c].isolated

\* C24: for a request isolated from within its handler the request callback
\* is invoked once and never again; sg__httpres_dispatch is called at most
\* once for it and only when its worker has run the handler function to the
\* end and resumed the connection; and once the worker's handler function has
\* returned, the connection is eventually resumed and the request finalized by
\* the post-handler step with exactly one dispatch.
C24_IsolatedSafe ==
  \A c \in Conns :
    Isolated(c) =>
      /\ hist[c].reqcbn = 1
      /\ hist[c].dispn <= 1
      /\ hist[c].dispn = 1 =>
           /\ worker[c].pc \in {"fin", "exit"} /\ worker[c].resumed
           /\ ~conn[c].suspended /\ conn[c].st = "done"
      /\ conn[c].st = "done" => hist[c].dispn = 1

C24_IsolatedFinalized ==
  /\ []C24_IsolatedSafe
  /\ \A c \in DispatchConns :
       (Isolated(c) /\ worker[c].pc = "fin") ~>
         (Isolated(c) /\ ~conn[c].suspended /\ conn[c].st = "done"
            /\ hist[c].dispn = 1 /\ hist[c].reqcbn = 1 /\ last[c].disp)

\* the worker resumed the connection after the first call had returned
\* keep-waiting, and a later call dispatched the worker's response
C24_Witness ==
  \E c \in Conns :
    /\ Isolated(c) /\ conn[c].st = "done" /\ conn[c].queued
    /\ hist[c].dispn = 1 /\ hist[c].reqcbn = 1 /\ hist[c].upldn > 1
    /\ last[c].isocall = "none" /\ last[c].disp /\ ~last[c].reqcb

\* the last call was a listen call that got as far as MHD_start_daemon
Listened == app.op \in {"listen", "tls_listen4"} /\ app.attempted

\* its arguments
ListenTls == IF app.op = "tls_listen4" THEN app.args[1] ELSE NoTls
ListenHost == IF app.op = "tls_listen4" THEN app.args[2] ELSE app.args[1]
ListenBacklog == IF app.op = "tls_listen4" THEN app.args[3] ELSE app.args[2]
UsesTls == ListenTls.key /\ ListenTls.cert

\* the entries it wrote that carry option o
Entries(o) == {i \in 1..Len(app.ops) : app.ops[i].option = o}
Has(o) == Entries(o) # {}

\* C25: the entries a listen call writes are a function of the
\* configuration: the error logger, the request-completion notifier and the
\* connection notifier always; connection limit, connection timeout and
\* thread-pool size exactly when configured above 0, with the configured
\* value; TLS key and certificate exactly when both are given, and password,
\* trust chain, DH parameters and priorities exactly when given besides;
\* the listen backlog exactly when it is above 0 and TLS is enabled; the
\* socket address exactly when a host is given; nothing else, no option
\* twice, and MHD_OPTION_END once, as the last entry written.
C25_OptionList ==
  Listened =>
    /\ Has("MHD_OPTION_EXTERNAL_LOGGER")
    /\ Has("MHD_OPTION_NOTIFY_COMPLETED") /\ Has("MHD_OPTION_NOTIFY_CONNECTION")
    /\ Has("MHD_OPTION_CONNECTION_LIMIT") <=> app.pre.con_limit > 0
    /\ Has("MHD_OPTION_CONNECTION_TIMEOUT") <=> app.pre.con_timeout > 0
    /\ Has("MHD_OPTION_THREAD_POOL_SIZE") <=> app.pre.thr_pool_size > 0
    /\ \A i \in 1..Len(app.ops) :
         app.ops[i].value =
           CASE app.ops[i].option = "MHD_OPTION_CONNECTION_LIMIT" -> app.pre.con_limit
             [] app.ops[i].option = "MHD_OPTION_CONNECTION_TIMEOUT" -> app.pre.con_timeout
             [] app.ops[i].option = "MHD_OPTION_THREAD_POOL_SIZE" -> app.pre.thr_pool_size
             [] app.ops[i].option = "MHD_OPTION_LISTEN_BACKLOG_SIZE" -> ListenBacklog
             [] OTHER -> 0
    /\ Has("MHD_OPTION_HTTPS_MEM_KEY") <=> UsesTls
    /\ Has("MHD_OPTION_HTTPS_MEM_CERT") <=> UsesTls
    /\ Has("MHD_OPTION_HTTPS_KEY_PASSWORD") <=> (UsesTls /\ ListenTls.pwd)
    /\ Has("MHD_OPTION_HTTPS_MEM_TRUST") <=> (UsesTls /\ ListenTls.trust)
    /\ Has("MHD_OPTION_HTTPS_MEM_DHPARAMS") <=> (UsesTls /\ ListenTls.dhparams)
    /\ Has("MHD_OPTION_HTTPS_PRIORITIES") <=> (UsesTls /\ ListenTls.priorities)
    /\ Has("MHD_OPTION_LISTEN_BACKLOG_SIZE") <=> (ListenBacklog > 0 /\ UsesTls)
    /\ Has("MHD_OPTION_SOCK_ADDR") <=> ListenHost # NullStr
    /\ \A i \in 1..Len(app.ops) :
         /\ Cardinality(Entries(app.ops[i].option)) = 1
         /\ app.ops[i].option \in
              {"MHD_OPTION_EXTERNAL_LOGGER", "MHD_OPTION_SOCK_ADDR",
               "MHD_OPTION_NOTIFY_COMPLETED", "MHD_OPTION_NOTIFY_CONNECTION",
               "MHD_OPTION_CONNECTION_LIMIT", "MHD_OPTION_CONNECTION_TIMEOUT",
               "MHD_OPTION_THREAD_POOL_SIZE", "MHD_OPTION_HTTPS_MEM_KEY",
               "MHD_OPTION_HTTPS_KEY_PASSWORD", "MHD_OPTION_HTTPS_MEM_CERT",
               "MHD_OPTION_HTTPS_MEM_TRUST", "MHD_OPTION_HTTPS_MEM_DHPARAMS",
               "MHD_OPTION_HTTPS_PRIORITIES", "MHD_OPTION_LISTEN_BACKLOG_SIZE",
               "MHD_OPTION_END"}
    /\ Entries("MHD_OPTION_END") = {Len(app.ops)}
    /\ app.pos = Len(app.ops)

\* a TLS listen with a backlog, a password and a connection limit
C25_Witness ==
  /\ Listened /\ app.op = "tls_listen4" /\ ListenBacklog > 0
  /\ Has("MHD_OPTION_LISTEN_BACKLOG_SIZE") /\ Has("MHD_OPTION_HTTPS_KEY_PASSWORD")
  /\ Has("MHD_OPTION_CONNECTION_LIMIT") /\ ~Has("MHD_OPTION_HTTPS_MEM_TRUST")
  /\ app.pos <= OpsCapacity

\* a listen without TLS whose backlog is not handed to the engine
C25_WitnessPlain ==
  /\ Listened /\ app.op = "listen" /\ ListenBacklog > 0
  /\ ~Has("MHD_OPTION_LISTEN_BACKLOG_SIZE") /\ Has("MHD_OPTION_SOCK_ADDR")

\* C26: for every configuration listen accepts, the number of entries
\* written, MHD_OPTION_END included, is at most the capacity of the option
\* array, so the engine reads the array as it was written.
C26_OptionCapacity ==
  Listened => app.pos <= OpsCapacity /\ app.seen = app.ops

\* C27: after any sequence of listen, shutdown and free calls the handle is
\* non-null exactly when an engine started by this server is running, at most
\* one such engine runs at a time, and a shutdown or free that has returned
\* leaves no engine of the server running.
C27_HandleTracksEngine ==
  /\ srv # NULL => (srv.handle <=> app.daemons > 0)
  /\ app.daemons <= 1
  /\ (app.op = "shutdown" \/ (app.op = "free" /\ fr.pc \in {"idle", "done"})) =>
       app.daemons = 0

\* C28: a constructed server keeps its request and error callbacks, a
\* post-buffer size of at least 256 and its upload callback, write, save and
\* save-as hooks whatever setter, listen and shutdown calls are made; a setter
\* call that returns EINVAL leaves the configuration as it was; and listen
\* never refuses the configuration of such a server (lines 154-158).
C28_SettersKeepValid ==
  /\ srv # NULL =>
       /\ srv.req_cb /\ srv.err_cb
       /\ srv.post_buf_size >= MinPostBuf
       /\ srv.upld_cb /\ srv.upld_write_cb /\ srv.upld_save_cb /\ srv.upld_save_as_cb
  /\ (app.op \in {"set_upld_cbs", "set_upld_dir", "set_post_buf_size"}
        /\ app.rc = EINVAL) => srv = app.pre
  /\ (app.op = "listen" /\ app.pre # NULL) =>
       ~(~app.ret /\ app.errno = EINVAL /\ app.parsed = <<>> /\ app.errs = 0)

\* C29: while sg_httpsrv_free waits in pthread_join with the mutex released,
\* a worker that completes and deregisters its own entry cannot make it
\* visit or join an entry that is no longer in the registry: it never
\* follows a saved next-entry reference to a removed entry, it joins no
\* entry twice, and no entry is released twice or left unreleased once
\* sg_httpsrv_free has returned and the workers have exited.
C29_SafeTraversal ==
  /\ ~fr.stale
  /\ ~fr.rejoined
  /\ \A c \in Conns :
       /\ worker[c].entry # "refreed"
       /\ (fr.pc = "done" /\ worker[c].pc = "exit") => worker[c].entry = "freed"
====
